---- MODULE Spec2Model ----
(***************************************************************************)
(* tsc-watch (src/lib/tsc-watch.js): the compilation state tracker driven  *)
(* by the lines of the watched compiler, the five hook slots with their    *)
(* kill-then-restart coordination, the manual retrigger channel and the    *)
(* shutdown handler.                                                        *)
(*                                                                          *)
(* Scheduling is Node's: a macrotask (a line, an inbound message, the      *)
(* acknowledgement of a kill, a signal) runs to completion, then the       *)
(* microtask queue (promise continuations) drains in FIFO order before the *)
(* next macrotask.  The queue is the variable micro; a macrotask is        *)
(* enabled only when it is empty.                                           *)
(*                                                                          *)
(* Hook commands are taken to run until they are killed.                    *)
(***************************************************************************)
EXTENDS Naturals, Sequences, FiniteSets

\* Bounds of the model.
MaxLines == 4        \* lines of compiler output handled
MaxMsgs == 1         \* inbound messages handled
MaxInputs == 4       \* lines and messages together
MaxSpawns == 3       \* hook invocations spawned
MaxConfigured == 2   \* hook commands configured

Kinds == {"firstSuccess", "success", "failure", "compilationStarted", "compilationComplete"}

\* The order in which killProcesses lists the slots.
KindOrder == <<"firstSuccess", "success", "failure", "compilationStarted", "compilationComplete">>

\* The inbound tokens and the hook each one names; "other" stands for every
\* unrecognised message.
Messages == { "run-on-compilation-started-command", "run-on-compilation-complete-command", "run-on-first-success-command", "run-on-failure-command", "run-on-success-command", "other" }

\* The switch with its default falling into the last case.
MsgKind_Default(m) ==
  CASE m = "run-on-compilation-started-command" -> "compilationStarted"
    [] m = "run-on-compilation-complete-command" -> "compilationComplete"
    [] m = "run-on-first-success-command" -> "firstSuccess"
    [] m = "run-on-failure-command" -> "failure"
    [] OTHER -> "success"

MsgKind(m) ==
  CASE m = "run-on-compilation-started-command" -> "compilationStarted"
    [] m = "run-on-compilation-complete-command" -> "compilationComplete"
    [] m = "run-on-first-success-command" -> "firstSuccess"
    [] m = "run-on-failure-command" -> "failure"
    [] m = "run-on-success-command" -> "success"
    [] OTHER -> "none"

\* What detectState reports for one line: every combination of the three
\* markers, and a line that only names an emitted file.
LineStates ==
  [compilationStarted : BOOLEAN, compilationError : BOOLEAN, compilationComplete : BOOLEAN, fileEmitted : {FALSE}]
  \cup [compilationStarted : {FALSE}, compilationError : {FALSE}, compilationComplete : {FALSE}, fileEmitted : {TRUE}]

\* The sets of configured hook commands the model starts from.
Configs == { c \in [Kinds -> BOOLEAN] : Cardinality({k \in Kinds : c[k]}) <= MaxConfigured }

VARIABLES
  firstTime,                    \* let firstTime
  compilationErrorSinceStart,   \* let compilationErrorSinceStart
  killers,                      \* the five *Killer slots: a handle, or 0 for null
  conf,                         \* on*Command configured?
  procs,                        \* hook invocations spawned so far, by handle; with each, history
                                \* of the operation that spawned it
  kills,                        \* kill requests not yet acknowledged, with their continuation
  micro,                        \* the microtask queue
  awaiting,                     \* kill promises Promise.all of the shutdown still waits for
  phase,                        \* "running", "cleanup" (shutdown handler ran), "exited"
                                \* (process.exit()), "killed" (ended by a signal)
  tscAlive,                     \* the watched compiler process
  events,                       \* what Signal.send has sent, each tagged with its line
  lines,                        \* history: the classification of every line processed
  lineOut,                      \* history: per line, the events and hooks it produced
  nmsgs,                        \* history: the number of inbound messages handled
  lastMsg,                      \* history: the last inbound message handled
  shutdownLog,                  \* history: the steps of the shutdown, in order
  midRestart                    \* history: a restart was in flight when the signal came

vars == <<firstTime, compilationErrorSinceStart, killers, conf, procs, kills, micro, awaiting, phase, tscAlive, events, lines, lineOut, nmsgs, lastMsg, shutdownLog, midRestart>>

----------------------------------------------------------------------------
\* Helpers on sequences.

SeqCount(s, P(_)) == Cardinality({i \in 1..Len(s) : P(s[i])})

RemoveAt(s, i) == SubSeq(s, 1, i - 1) \o SubSeq(s, i + 1, Len(s))

RECURSIVE Flatten(_)
Flatten(ss) == IF ss = <<>> THEN <<>> ELSE Head(ss) \o Flatten(Tail(ss))

----------------------------------------------------------------------------
\* A promise continuation.  op: what it does when it runs; kind: the hook;
\* h: the handle run() returned.  origin, pre and n are history of the
\* operation it belongs to: who started it ("line" or "message"), the slot's
\* handle when it started, and the termination requests it has issued.
Cont(op, kind, h, origin, pre, n) ==
  [op |-> op, kind |-> kind, h |-> h, origin |-> origin, pre |-> pre, n |-> n]

\* The hook manager's part of the state, threaded through the synchronous
\* calls of one handler.
HM == [kills |-> kills, micro |-> micro]

\* kill(killer) followed by the await in restart: a non-null killer is called
\* and the continuation waits for its promise; await null resumes on the next
\* microtask.
Restart(hm, kind, killer, origin, pre, n) ==
  IF killer # 0
    THEN [hm EXCEPT !.kills = Append(@, [h |-> killer, cont |-> Cont("spawn", kind, 0, origin, pre, n + 1)])]
    ELSE [hm EXCEPT !.micro = Append(@, Cont("spawn", kind, 0, origin, pre, n))]

\* runOn<Kind> without the test of the command.
RunOn_IgnoresConf(hm, kind, origin, pre, n) ==
  Restart(hm, kind, killers[kind], origin, pre, n)

\* runOn<Kind> doing nothing while a restart of the hook waits for its kill.
RunOn_Coalesced(hm, kind, origin, pre, n) ==
  IF conf[kind] /\ ~(\E i \in 1..Len(hm.kills) : hm.kills[i].cont.kind = kind /\ hm.kills[i].cont.op = "spawn")
    THEN Restart(hm, kind, killers[kind], origin, pre, n)
    ELSE hm

\* runOnFailureCommand passing successKiller.
RunOn_WrongSlot(hm, kind, origin, pre, n) ==
  IF conf[kind]
    THEN Restart(hm, kind, killers[IF kind = "failure" THEN "success" ELSE kind], origin, pre, n)
    ELSE hm

\* runOn<Kind>(): nothing when the command is not configured, else
\* restart(<kind>Killer, command) with the slot read at the call.
RunOn(hm, kind, origin, pre, n) ==
  IF conf[kind]
    THEN Restart(hm, kind, killers[kind], origin, pre, n)
    ELSE hm

\* The line handler's calls of runOn*, in order.
RECURSIVE RunHooks(_, _)
RunHooks(hm, ks) ==
  IF ks = <<>> THEN hm
  ELSE RunHooks(RunOn(hm, Head(ks), "line", killers[Head(ks)], 0), Tail(ks))

----------------------------------------------------------------------------
\* The tracker.

\* The flag without the reset at a start line.
NextErrorSinceStart_NoReset(prev, st) ==
  prev \/ st.compilationError

\* The flag without the current line's own error marker.
NextErrorSinceStart_NoError(prev, st) ==
  ~st.compilationStarted /\ prev

NextErrorSinceStart(prev, st) ==
  (~st.compilationStarted /\ prev) \/ st.compilationError

\* The one-shot guard never cleared.
NextFirstTime_Kept(first, st, err) == first

\* The one-shot guard cleared by a failed completion too.
NextFirstTime_EarlyClear(first, st, err) ==
  IF st.compilationComplete THEN FALSE ELSE first

NextFirstTime(first, st, err) ==
  IF st.compilationComplete /\ ~err THEN FALSE ELSE first

\* A send that drops a message equal to the last one sent.
Send_Dedup(evs, e) ==
  IF evs # <<>> /\ evs[Len(evs)].msg = e.msg THEN evs ELSE Append(evs, e)

\* Signal.send
Send(evs, e) == Append(evs, e)

\* The messages of a line with first_success sent after success.
EventsOfLine_Swapped(st, err, first) ==
  (IF st.fileEmitted THEN <<"file_emitted">> ELSE <<>>)
  \o (IF st.compilationStarted THEN <<"started">> ELSE <<>>)
  \o (IF st.compilationComplete
        THEN IF err THEN <<"compile_errors">>
             ELSE <<"success">> \o (IF first THEN <<"first_success">> ELSE <<>>)
        ELSE <<>>)

\* The messages of a line with the success branch not under the else.
EventsOfLine_NoElse(st, err, first) ==
  (IF st.fileEmitted THEN <<"file_emitted">> ELSE <<>>)
  \o (IF st.compilationStarted THEN <<"started">> ELSE <<>>)
  \o (IF st.compilationComplete
        THEN (IF err THEN <<"compile_errors">> ELSE <<>>)
             \o (IF first THEN <<"first_success">> ELSE <<>>) \o <<"success">>
        ELSE <<>>)

\* The messages one line sends, in order (err: the flag after line 124).
EventsOfLine(st, err, first) ==
  (IF st.fileEmitted THEN <<"file_emitted">> ELSE <<>>)
  \o (IF st.compilationStarted THEN <<"started">> ELSE <<>>)
  \o (IF st.compilationComplete
        THEN IF err THEN <<"compile_errors">>
             ELSE (IF first THEN <<"first_success">> ELSE <<>>) \o <<"success">>
        ELSE <<>>)

\* The hooks one line triggers, in order.
HooksOfLine(st, err, first) ==
  (IF st.compilationStarted THEN <<"compilationStarted">> ELSE <<>>)
  \o (IF st.compilationComplete
        THEN <<"compilationComplete">>
             \o (IF err THEN <<"failure">>
                 ELSE (IF first THEN <<"firstSuccess">> ELSE <<>>) \o <<"success">>)
        ELSE <<>>)

RECURSIVE SendAll(_, _, _)
SendAll(evs, es, n) ==
  IF es = <<>> THEN evs ELSE SendAll(Send(evs, [msg |-> Head(es), line |-> n]), Tail(es), n)

----------------------------------------------------------------------------
\* Spawns that operations already under way will still make.
IsRestartCont(c) == c.op \in {"spawn", "func"} /\ conf[c.kind]
PendingSpawns ==
  LET P(c) == IsRestartCont(c)
      Q(r) == IsRestartCont(r.cont)
  IN SeqCount(micro, P) + SeqCount(kills, Q)

ConfiguredIn(ks) == LET P(k) == conf[k] IN SeqCount(ks, P)

\* Restarts of a kind that are under way: from the read of the slot to the
\* store of the new handle.
InRestart(c, kind) == c.kind = kind /\ c.op \in {"spawn", "store"}
RestartsInFlight(kind) ==
  LET P(c) == InRestart(c, kind)
      Q(r) == InRestart(r.cont, kind)
  IN SeqCount(micro, P) + SeqCount(kills, Q)

----------------------------------------------------------------------------
Init ==
  /\ firstTime = TRUE
  /\ compilationErrorSinceStart = FALSE
  /\ killers = [k \in Kinds |-> 0]
  /\ conf \in Configs
  /\ procs = <<>>
  /\ kills = <<>>
  /\ micro = <<>>
  /\ awaiting = 0
  /\ phase = "running"
  /\ tscAlive = TRUE
  /\ events = <<>>
  /\ lines = <<>>
  /\ lineOut = <<>>
  /\ nmsgs = 0
  /\ lastMsg = "none"
  /\ shutdownLog = <<>>
  /\ midRestart = FALSE

\* rl.on('line'): one line of the compiler's output.
Line(st) ==
  /\ phase \in {"running", "cleanup"}
  /\ micro = <<>>
  /\ Len(lines) < MaxLines
  /\ Len(lines) + nmsgs < MaxInputs
  /\ LET err == NextErrorSinceStart(compilationErrorSinceStart, st)
         evs == EventsOfLine(st, err, firstTime)
         hks == HooksOfLine(st, err, firstTime)
         hm == RunHooks(HM, hks)
     IN /\ Len(procs) + PendingSpawns + ConfiguredIn(hks) <= MaxSpawns
        /\ compilationErrorSinceStart' = err
        /\ firstTime' = NextFirstTime(firstTime, st, err)
        /\ events' = SendAll(events, evs, Len(lines) + 1)
        /\ kills' = hm.kills
        /\ micro' = hm.micro
        /\ lines' = Append(lines, st)
        /\ lineOut' = Append(lineOut, [events |-> evs, hooks |-> hks])
  /\ UNCHANGED <<killers, conf, procs, awaiting, phase, tscAlive, nmsgs, lastMsg, shutdownLog, midRestart>>

\* The message handler clearing the one-shot guard on a retrigger of the
\* firstSuccess hook.
Message_ClearsGuard(m) ==
  /\ phase \in {"running", "cleanup"}
  /\ micro = <<>>
  /\ nmsgs < MaxMsgs
  /\ Len(lines) + nmsgs < MaxInputs
  /\ nmsgs' = nmsgs + 1
  /\ lastMsg' = m
  /\ firstTime' = IF MsgKind(m) = "firstSuccess" THEN FALSE ELSE firstTime
  /\ IF MsgKind(m) = "none"
       THEN UNCHANGED <<kills, micro>>
       ELSE LET kind == MsgKind(m)
                pre == killers[kind]
            IN /\ Len(procs) + PendingSpawns + (IF conf[kind] THEN 1 ELSE 0) <= MaxSpawns
               /\ IF pre # 0
                    THEN /\ kills' = Append(kills, [h |-> pre, cont |-> Cont("func", kind, 0, "message", pre, 1)])
                         /\ micro' = micro
                    ELSE /\ micro' = Append(micro, Cont("func", kind, 0, "message", pre, 0))
                         /\ kills' = kills
  /\ UNCHANGED <<compilationErrorSinceStart, killers, conf, procs, awaiting, phase, tscAlive, events, lines, lineOut, shutdownLog, midRestart>>

\* process.on('message'): the slot's killer is called if there is one, and
\* runOn<Kind> is chained to its promise; other messages are only logged.
Message(m) ==
  /\ phase \in {"running", "cleanup"}
  /\ micro = <<>>
  /\ nmsgs < MaxMsgs
  /\ Len(lines) + nmsgs < MaxInputs
  /\ nmsgs' = nmsgs + 1
  /\ lastMsg' = m
  /\ IF MsgKind(m) = "none"
       THEN UNCHANGED <<kills, micro>>
       ELSE LET kind == MsgKind(m)
                pre == killers[kind]
            IN /\ Len(procs) + PendingSpawns + (IF conf[kind] THEN 1 ELSE 0) <= MaxSpawns
               /\ IF pre # 0
                    THEN /\ kills' = Append(kills, [h |-> pre, cont |-> Cont("func", kind, 0, "message", pre, 1)])
                         /\ micro' = micro
                    ELSE /\ micro' = Append(micro, Cont("func", kind, 0, "message", pre, 0))
                         /\ kills' = kills
  /\ UNCHANGED <<firstTime, compilationErrorSinceStart, killers, conf, procs, awaiting, phase, tscAlive, events, lines, lineOut, shutdownLog, midRestart>>

\* A killer's promise resolves: the invocation has terminated, and the
\* continuation waiting for it is queued.
KillAck(i) ==
  /\ phase \in {"running", "cleanup"}
  /\ micro = <<>>
  /\ i \in 1..Len(kills)
  /\ procs' = [procs EXCEPT ![kills[i].h].alive = FALSE]
  /\ kills' = RemoveAt(kills, i)
  /\ micro' = <<kills[i].cont>>
  /\ UNCHANGED <<firstTime, compilationErrorSinceStart, killers, conf, awaiting, phase, tscAlive, events, lines, lineOut, nmsgs, lastMsg, shutdownLog, midRestart>>

\* promise.then(func): runOn<Kind>() called from the message handler's chain.
StepFunc(c) ==
  /\ c.op = "func"
  /\ LET hm == RunOn([HM EXCEPT !.micro = Tail(micro)], c.kind, c.origin, c.pre, c.n)
     IN /\ kills' = hm.kills
        /\ micro' = hm.micro
  /\ UNCHANGED <<killers, procs, awaiting, phase, shutdownLog>>

\* restart after its await: run(handler) spawns the command and returns its
\* killer, which resolves the promise runOn<Kind> awaits.
StepSpawn(c) ==
  /\ c.op = "spawn"
  /\ procs' = Append(procs, [kind |-> c.kind, alive |-> TRUE, origin |-> c.origin, pre |-> c.pre, kills |-> c.n])
  /\ micro' = Append(Tail(micro), Cont("store", c.kind, Len(procs) + 1, c.origin, c.pre, c.n))
  /\ UNCHANGED <<killers, kills, awaiting, phase, shutdownLog>>

\* runOn<Kind> after its await: the assignment to the slot.
StepStore(c) ==
  /\ c.op = "store"
  /\ killers' = [killers EXCEPT ![c.kind] = c.h]
  /\ micro' = Tail(micro)
  /\ UNCHANGED <<procs, kills, awaiting, phase, shutdownLog>>

\* An entry of the shutdown's history.
LogStep(step, kind, h) == [step |-> step, kind |-> kind, h |-> h]

\* One element of the shutdown's Promise.all settles; the last one queues
\* the .then callback.
StepSettle(c) ==
  /\ c.op = "settle"
  /\ awaiting' = awaiting - 1
  /\ micro' = IF awaiting = 1 THEN Append(Tail(micro), Cont("exit", "none", 0, "signal", 0, 0)) ELSE Tail(micro)
  /\ shutdownLog' = IF awaiting = 1 THEN Append(shutdownLog, LogStep("settled", "none", 0)) ELSE shutdownLog
  /\ UNCHANGED <<killers, procs, kills, phase>>

\* process.exit()
StepExit(c) ==
  /\ c.op = "exit"
  /\ phase' = "exited"
  /\ micro' = <<>>
  /\ shutdownLog' = Append(shutdownLog, LogStep("exit", "none", 0))
  /\ UNCHANGED <<killers, procs, kills, awaiting>>

\* The event loop runs the microtask at the head of the queue.
Microtask ==
  /\ phase \in {"running", "cleanup"}
  /\ micro # <<>>
  /\ LET c == Head(micro)
     IN \/ StepFunc(c)
        \/ StepSpawn(c)
        \/ StepStore(c)
        \/ StepSettle(c)
        \/ StepExit(c)
  /\ UNCHANGED <<firstTime, compilationErrorSinceStart, conf, tscAlive, events, lines, lineOut, nmsgs, lastMsg, midRestart>>

\* The kill requests of killProcesses(true), in the order of its list.
RECURSIVE CleanupKills(_)
CleanupKills(ks) ==
  IF ks = <<>> THEN <<>>
  ELSE (IF killers[Head(ks)] # 0
          THEN <<[h |-> killers[Head(ks)], cont |-> Cont("settle", Head(ks), 0, "signal", 0, 0)]>>
          ELSE <<>>) \o CleanupKills(Tail(ks))

\* The handler's steps with the hooks' kills requested before the compiler
\* is terminated.
ShutdownSteps_HooksFirst(reqs) ==
  [i \in 1..Len(reqs) |-> LogStep("kill", reqs[i].cont.kind, reqs[i].h)]
  \o <<LogStep("tsc", "none", 0)>>

\* The handler's steps in order: tscProcess.kill(signal), then the killers
\* killProcesses(true) calls.
ShutdownSteps(reqs) ==
  <<LogStep("tsc", "none", 0)>>
  \o [i \in 1..Len(reqs) |-> LogStep("kill", reqs[i].cont.kind, reqs[i].h)]

\* The handler stays installed in every phase.
HandlerInstalled_Always(ph) == ph \in {"running", "cleanup"}

\* nodeCleanup's handler is installed until it has run once: it ends with
\* nodeCleanup.uninstall().
HandlerInstalled(ph) == ph = "running"

\* The nodeCleanup handler, on a termination signal.
Shutdown ==
  /\ HandlerInstalled(phase)
  /\ micro = <<>>
  /\ tscAlive' = FALSE
  /\ LET reqs == CleanupKills(KindOrder)
     IN /\ kills' = kills \o reqs
        /\ awaiting' = Len(reqs)
        /\ micro' = IF reqs = <<>> THEN <<Cont("exit", "none", 0, "signal", 0, 0)>> ELSE micro
        /\ shutdownLog' = shutdownLog \o ShutdownSteps(reqs)
  /\ phase' = "cleanup"
  /\ midRestart' = (\E k \in Kinds : RestartsInFlight(k) > 0)
  /\ UNCHANGED <<firstTime, compilationErrorSinceStart, killers, conf, procs, events, lines, lineOut, nmsgs, lastMsg>>

\* A termination signal once the handler is uninstalled: the signal's
\* default action ends the process at once.
SignalAfterUninstall ==
  /\ phase = "cleanup"
  /\ ~HandlerInstalled(phase)
  /\ micro = <<>>
  /\ phase' = "killed"
  /\ UNCHANGED <<firstTime, compilationErrorSinceStart, killers, conf, procs, kills, micro, awaiting, tscAlive, events, lines, lineOut, nmsgs, lastMsg, shutdownLog, midRestart>>

Next ==
  \/ \E st \in LineStates : Line(st)
  \/ \E m \in Messages : Message(m)
  \/ \E i \in 1..Len(kills) : KillAck(i)
  \/ Microtask
  \/ Shutdown
  \/ SignalAfterUninstall

Spec == Init /\ [][Next]_vars

----------------------------------------------------------------------------
\* Definitions the properties below are stated with.

\* The invocations of a hook that are alive.
Alive(kind) == {h \in 1..Len(procs) : procs[h].kind = kind /\ procs[h].alive}

\* Operations on a hook's slot that are under way: a restart between its read
\* of the slot and its store, or a manual retrigger from its kill request on.
InOperation(c, kind) == c.kind = kind /\ c.op \in {"func", "spawn", "store"}
OperationsInFlight(kind) ==
  LET P(c) == InOperation(c, kind)
      Q(r) == InOperation(r.cont, kind)
  IN SeqCount(micro, P) + SeqCount(kills, Q)

\* Nothing is pending for a hook: no operation under way, no kill requested
\* of one of its invocations and not acknowledged.
Settled(kind) ==
  /\ OperationsInFlight(kind) = 0
  /\ \A i \in 1..Len(kills) : procs[kills[i].h].kind # kind

\* The messages sent while line j was processed, and how often m is in a sequence.
IsOfLine(e, j) == e.line = j
EventsFrom(j) ==
  LET P(e) == IsOfLine(e, j)
      sel == SelectSeq(events, P)
  IN [i \in 1..Len(sel) |-> sel[i].msg]
Sent == [i \in 1..Len(events) |-> events[i].msg]
Occurrences(s, m) == Cardinality({i \in 1..Len(s) : s[i] = m})

\* Lines i..j hold no line classified started, resp. error.
NoStartIn(i, j) == \A n \in i..j : ~lines[n].compilationStarted
NoErrorIn(i, j) == \A n \in i..j : ~lines[n].compilationError

Class(s, e, c) ==
  [compilationStarted |-> s, compilationError |-> e, compilationComplete |-> c, fileEmitted |-> FALSE]

----------------------------------------------------------------------------
\* C1: in every reachable state, every hook kind has at most one invocation
\* alive (spawned and not yet terminated).
C1_AtMostOneAlive ==
  \A k \in Kinds : Cardinality(Alive(k)) <= 1

\* C2: restarts of one hook's slot are serialized: never are two operations
\* on the same slot (restarts by a line, manual retriggers) under way at once,
\* the second having read the slot before the first has stored its new handle.
C2_RestartsSerialized ==
  \A k \in Kinds : OperationsInFlight(k) <= 1

\* C3: once every trigger of a configured hook has settled and no shutdown
\* has occurred, exactly one invocation of the hook is alive and it is the one
\* the hook's slot refers to.
C3_OneAliveAfterSettling ==
  \A k \in Kinds :
    (phase = "running" /\ micro = <<>> /\ Settled(k) /\ (\E h \in 1..Len(procs) : procs[h].kind = k))
      => Alive(k) = {killers[k]}

\* C4: when the shutdown signal arrived while an operation on some slot was
\* in flight, no hook invocation is alive once the process has exited.
C4_NoOrphanAfterExit ==
  (phase = "exited" /\ midRestart) => \A k \in Kinds : Alive(k) = {}

\* C5: a complete line that follows a started line, with no started line in
\* between and no error line from the started line on (the complete line
\* included), sends exactly one success, triggers the success hook exactly
\* once and sends no compile_errors.
C5_SuccessAfterCleanRun ==
  \A j \in 1..Len(lines) : \A i \in 1..(j - 1) :
    (/\ lines[i].compilationStarted
     /\ lines[j].compilationComplete
     /\ NoStartIn(i + 1, j - 1)
     /\ NoErrorIn(i, j))
      => /\ Occurrences(EventsFrom(j), "success") = 1
         /\ Occurrences(lineOut[j].hooks, "success") = 1
         /\ Occurrences(EventsFrom(j), "compile_errors") = 0

C5_Witness ==
  /\ Len(lines) = 3
  /\ lines[1] = Class(TRUE, FALSE, FALSE)
  /\ lines[2] = Class(FALSE, FALSE, FALSE)
  /\ lines[3] = Class(FALSE, FALSE, TRUE)
  /\ conf["success"]
  /\ killers["success"] # 0

\* C6: a complete line closing a run that holds an error line (the run begins
\* at the most recent started line and ends with the complete line) sends
\* exactly one compile_errors, triggers the failure hook, and sends no success.
C6_FailureAfterError ==
  \A j \in 1..Len(lines) : \A i \in 1..(j - 1) :
    (/\ lines[i].compilationStarted
     /\ lines[j].compilationComplete
     /\ NoStartIn(i + 1, j)
     /\ ~NoErrorIn(i, j))
      => /\ Occurrences(EventsFrom(j), "compile_errors") = 1
         /\ Occurrences(lineOut[j].hooks, "failure") = 1
         /\ Occurrences(EventsFrom(j), "success") = 0
         /\ Occurrences(EventsFrom(j), "first_success") = 0

C6_Witness ==
  /\ Len(lines) = 3
  /\ lines[1] = Class(TRUE, FALSE, FALSE)
  /\ lines[2] = Class(FALSE, TRUE, FALSE)
  /\ lines[3] = Class(FALSE, FALSE, TRUE)
  /\ conf["failure"]
  /\ killers["failure"] # 0

\* C7 as stated: first_success is sent at most once and the firstSuccess
\* hook command is started at most once.
C7_FirstSuccessStartedOnce ==
  /\ Occurrences(Sent, "first_success") <= 1
  /\ Cardinality({h \in 1..Len(procs) : procs[h].kind = "firstSuccess"}) <= 1

\* C7, amended: first_success is sent at most once and line processing
\* triggers and starts the firstSuccess hook command at most once; every
\* other start of it is made by a manual retrigger message.
C7_FirstSuccessOncePerLines ==
  /\ Occurrences(Sent, "first_success") <= 1
  /\ Cardinality({j \in 1..Len(lines) : Occurrences(lineOut[j].hooks, "firstSuccess") > 0}) <= 1
  /\ \A j \in 1..Len(lines) : Occurrences(lineOut[j].hooks, "firstSuccess") <= 1
  /\ Cardinality({h \in 1..Len(procs) : procs[h].kind = "firstSuccess" /\ procs[h].origin = "line"}) <= 1
  /\ Cardinality({h \in 1..Len(procs) : procs[h].kind = "firstSuccess" /\ procs[h].origin = "message"}) <= nmsgs

C7_Witness ==
  /\ Cardinality({j \in 1..Len(lines) : lines[j].compilationComplete /\ Occurrences(EventsFrom(j), "success") = 1}) >= 3
  /\ Occurrences(Sent, "first_success") = 1
  /\ \E h \in 1..Len(procs) : procs[h].kind = "firstSuccess" /\ procs[h].origin = "line"

\* C8: the messages sent keep the order of the lines: a message of an earlier
\* line comes before every message of a later line, and the messages sent for
\* a line are exactly the ones the line produced, none twice and none dropped,
\* whatever hook restarts are pending.
C8_EventOrderIsLineOrder ==
  /\ \A p \in 1..Len(events) : \A q \in p..Len(events) : events[p].line <= events[q].line
  /\ \A j \in 1..Len(lines) : EventsFrom(j) = lineOut[j].events
  /\ Len(events) = Len(Flatten([j \in 1..Len(lines) |-> lineOut[j].events]))

C8_Witness ==
  /\ Len(lines) = 3
  /\ Len(lineOut[1].events) = 2
  /\ lineOut[2].events = <<>>
  /\ Len(lineOut[3].events) = 1
  /\ lineOut[1].events[2] = lineOut[3].events[1]
  /\ kills # <<>>

\* The example's input: complete, started, error, complete.
Example == <<Class(FALSE, FALSE, TRUE), Class(TRUE, FALSE, FALSE), Class(FALSE, TRUE, FALSE), Class(FALSE, FALSE, TRUE)>>

\* C9 as stated: from the initial state the example's four lines yield
\* exactly success, started, compile_errors.
C9_ExampleEvents ==
  lines = Example => Sent = <<"success", "started", "compile_errors">>

\* C9, amended: from the initial state the example's four lines yield exactly
\* first_success, success, started, compile_errors.
C9_ExampleEventsWithFirstSuccess ==
  lines = Example => Sent = <<"first_success", "success", "started", "compile_errors">>

C9_Witness ==
  lines = Example

\* C10: a manual retrigger has the effect of an automatic restart started from
\* the same slot: the invocation either of them spawns was preceded by as many
\* termination requests of the previous invocation, one if there was one.
C10_ManualSameAsRestart ==
  \A h \in 1..Len(procs) : procs[h].kills = (IF procs[h].pre # 0 THEN 1 ELSE 0)

----------------------------------------------------------------------------
\* The tracker's flags as the history of lines determines them: an error
\* line at or after the most recent started line up to line j; no completion
\* without error before line j.
ErrAt(j) == \E e \in 1..j : lines[e].compilationError /\ NoStartIn(e + 1, j)
FirstAt(j) == \A i \in 1..(j - 1) : ~(lines[i].compilationComplete /\ ~ErrAt(i))

\* The place of a step in the order of a shutdown.
Rank(step) == CASE step = "tsc" -> 1 [] step = "kill" -> 2 [] step = "settled" -> 3 [] OTHER -> 4
RankAsStated(step) == CASE step = "kill" -> 1 [] step = "tsc" -> 2 [] step = "settled" -> 3 [] OTHER -> 4

StepsOf(step) == {i \in 1..Len(shutdownLog) : shutdownLog[i].step = step}

\* No kill the shutdown requested is pending once the process has exited.
ExitAfterKillsSettled ==
  phase = "exited" => /\ awaiting = 0
                      /\ \A i \in 1..Len(kills) : kills[i].cont.op # "settle"

\* The handler requests the termination of every invocation a slot holds,
\* firstSuccess included, and terminates the compiler.
HandlerKillsAllTracked ==
  (phase = "running" /\ phase' = "cleanup")
    => /\ ~tscAlive'
       /\ \A k \in Kinds : killers[k] # 0
            => \E i \in 1..Len(shutdownLog') : shutdownLog'[i] = LogStep("kill", k, killers[k])

\* C11 as stated: on a shutdown signal the termination of every tracked hook
\* invocation is requested, then the compiler is terminated, then the kills
\* settle, then the process exits; it never exits with a kill of the shutdown
\* unacknowledged.
C11_ShutdownOrderHooksFirst ==
  /\ \A p \in 1..Len(shutdownLog) : \A q \in p..Len(shutdownLog) :
       RankAsStated(shutdownLog[p].step) <= RankAsStated(shutdownLog[q].step)
  /\ ExitAfterKillsSettled

\* C11, amended: on a shutdown signal the compiler is terminated, then the
\* termination of every tracked hook invocation (firstSuccess included) is
\* requested, then the kills settle, then the process exits; it never exits
\* with a kill of the shutdown unacknowledged.
C11_ShutdownOrderCompilerFirst ==
  /\ [](/\ \A p \in 1..Len(shutdownLog) : \A q \in p..Len(shutdownLog) :
             Rank(shutdownLog[p].step) <= Rank(shutdownLog[q].step)
        /\ ExitAfterKillsSettled
        /\ (phase = "exited" => StepsOf("exit") # {} /\ StepsOf("tsc") # {}))
  /\ [][HandlerKillsAllTracked]_vars

C11_Witness ==
  /\ phase = "exited"
  /\ \E i \in StepsOf("kill") : shutdownLog[i].kind = "firstSuccess"
  /\ Cardinality(StepsOf("kill")) = 2
  /\ StepsOf("settled") # {}

\* C12: the flag is true exactly when an error line has been processed at or
\* after the most recent started line (since the start, if there is none); a
\* started line leaves the flag at that line's own error marker.
C12_ErrorSinceStartMeaning ==
  /\ compilationErrorSinceStart = ErrAt(Len(lines))
  /\ (lines # <<>> /\ lines[Len(lines)].compilationStarted)
       => compilationErrorSinceStart = lines[Len(lines)].compilationError

C12_Witness ==
  /\ Len(lines) = 4
  /\ lines[1] = Class(FALSE, TRUE, FALSE)
  /\ lines[2] = Class(TRUE, FALSE, FALSE)
  /\ lines[3] = Class(FALSE, TRUE, FALSE)
  /\ lines[4] = Class(FALSE, FALSE, TRUE)
  /\ compilationErrorSinceStart

\* C13: line processing does not wait for a hook restart: in every state all
\* events of every line received have been sent and every restart a line
\* triggered of a configured hook has been started (it waits for its kill, is
\* queued, or has spawned), whatever kills are unacknowledged.
IsLineSpawn(c) == c.op = "spawn" /\ c.origin = "line"
LineRestartsStarted ==
  LET P(c) == IsLineSpawn(c)
      Q(r) == IsLineSpawn(r.cont)
  IN SeqCount(micro, P) + SeqCount(kills, Q)
       + Cardinality({h \in 1..Len(procs) : procs[h].origin = "line"})

C13_LinesDoNotWaitForRestarts ==
  /\ Len(events) = Len(Flatten([j \in 1..Len(lines) |-> lineOut[j].events]))
  /\ LineRestartsStarted = Len(Flatten([j \in 1..Len(lines) |-> SelectSeq(lineOut[j].hooks, LAMBDA k : conf[k])]))

C13_Witness ==
  /\ Len(lines) = 3
  /\ Len(kills) = 2
  /\ \A i \in 1..2 : kills[i].cont.op = "spawn" /\ kills[i].cont.origin = "line" /\ kills[i].h = 1
  /\ procs[1].alive
  /\ Len(events) = 3

\* C14: a message that is none of the five tokens changes no slot, no flag of
\* the tracker and no event sent, requests no kill and spawns nothing.
C14_UnknownMessageIgnored ==
  [][(nmsgs' = nmsgs + 1 /\ lastMsg' = "other")
       => UNCHANGED <<killers, kills, micro, procs, compilationErrorSinceStart, firstTime, events>>]_vars

C14_Witness ==
  /\ lastMsg = "other"
  /\ \E k \in Kinds : killers[k] # 0 /\ procs[killers[k]].alive
  /\ events # <<>>

\* C15: for a hook whose command is not configured nothing is ever spawned,
\* no kill is requested and the slot stays empty, and the events sent are
\* those the lines alone determine, whatever is configured.
C15_UnconfiguredHookIsNoop ==
  /\ \A k \in Kinds : ~conf[k] =>
       /\ killers[k] = 0
       /\ \A h \in 1..Len(procs) : procs[h].kind # k
       /\ \A i \in 1..Len(kills) : kills[i].cont.kind # k
       /\ \A i \in 1..Len(micro) : ~(micro[i].kind = k /\ micro[i].op \in {"spawn", "store"})
  /\ \A j \in 1..Len(lines) : EventsFrom(j) = EventsOfLine(lines[j], ErrAt(j), FirstAt(j))

C15_Witness ==
  /\ ~conf["success"]
  /\ lastMsg = "run-on-success-command"
  /\ micro = <<>>
  /\ \E j \in 1..Len(lines) : Occurrences(lineOut[j].hooks, "success") = 1
  /\ Occurrences(Sent, "success") = 1
  /\ \E k \in Kinds : conf[k]

\* C16: the shutdown handler runs once: a signal that arrives after it has
\* run and before the process exits brings no second round of kill requests
\* and no second termination of the compiler.
C16_HandlerRunsOnce ==
  /\ Cardinality(StepsOf("tsc")) <= 1
  /\ \A k \in Kinds : Cardinality({i \in StepsOf("kill") : shutdownLog[i].kind = k}) <= 1
  /\ phase # "running" => Cardinality(StepsOf("tsc")) = 1

C16_Witness ==
  /\ phase = "killed"
  /\ Cardinality(StepsOf("tsc")) = 1
  /\ \E i \in 1..Len(kills) : kills[i].cont.op = "settle"

\* C17: every complete line, with or without a started line before it,
\* triggers the compilationComplete hook once and sends exactly one of
\* compile_errors (the flag is true) and success (it is false); a first line
\* that is complete and carries no error marker yields success.
C17_EveryCompleteLineIsProcessed ==
  \A j \in 1..Len(lines) : lines[j].compilationComplete =>
    /\ Occurrences(lineOut[j].hooks, "compilationComplete") = 1
    /\ Occurrences(EventsFrom(j), "compile_errors") + Occurrences(EventsFrom(j), "success") = 1
    /\ (Occurrences(EventsFrom(j), "compile_errors") = 1) = ErrAt(j)
    /\ (j = 1 /\ ~lines[1].compilationError) => Occurrences(EventsFrom(1), "success") = 1

C17_Witness ==
  /\ Len(lines) = 2
  /\ lines[1] = Class(FALSE, FALSE, TRUE)
  /\ lines[2] = Class(FALSE, TRUE, TRUE)
  /\ Sent = <<"first_success", "success", "compile_errors">>
  /\ conf["compilationComplete"]
  /\ Cardinality({h \in 1..Len(procs) : procs[h].kind = "compilationComplete"}) = 2

\* C18: a manual retrigger bypasses the tracker: no step other than the
\* handling of a line sends an event or changes the flag or the one-shot
\* guard, so the first completion without error sends first_success even
\* when the firstSuccess hook was retriggered by hand before it.
C18_RetriggerBypassesTracker ==
  /\ [][lines' = lines => UNCHANGED <<events, firstTime, compilationErrorSinceStart>>]_vars
  /\ [](\A j \in 1..Len(lines) :
          (lines[j].compilationComplete /\ ~ErrAt(j) /\ FirstAt(j))
            => Occurrences(EventsFrom(j), "first_success") = 1)

C18_Witness ==
  /\ lastMsg = "run-on-first-success-command"
  /\ Len(lines) = 1
  /\ Len(procs) = 2
  /\ procs[1].kind = "firstSuccess" /\ procs[1].origin = "message"
  /\ procs[2].kind = "firstSuccess" /\ procs[2].origin = "line"
  /\ Sent = <<"first_success", "success">>

\* C19: an operation on a hook's slot touches that slot only: the kill it
\* requests is of an invocation of its own hook, the handle it stores is of
\* its own hook and goes into its own slot, and an invocation is terminated
\* only by a kill a restart of its own hook or the shutdown requested.
OwnKindOnly ==
  /\ \A i \in 1..Len(kills) : procs[kills[i].h].kind = kills[i].cont.kind
  /\ \A k \in Kinds : killers[k] # 0 => procs[killers[k]].kind = k
  /\ \A i \in 1..Len(micro) : micro[i].op = "store" => procs[micro[i].h].kind = micro[i].kind

TerminatedByOwnKind ==
  /\ \A h \in 1..Len(procs) : (procs[h].alive /\ ~procs'[h].alive) =>
       \E i \in 1..Len(kills) :
         /\ kills[i].h = h
         /\ kills' = RemoveAt(kills, i)
         /\ kills[i].cont.kind = procs[h].kind
         /\ phase = "running" => kills[i].cont.op \in {"func", "spawn"}
  /\ \A k \in Kinds : killers'[k] # killers[k] =>
       /\ micro # <<>>
       /\ Head(micro).op = "store"
       /\ Head(micro).kind = k
       /\ \A k2 \in Kinds \ {k} : killers'[k2] = killers[k2]

C19_SlotsAreIndependent ==
  []OwnKindOnly /\ [][TerminatedByOwnKind]_vars

C19_Witness ==
  /\ phase = "running"
  /\ conf["success"] /\ conf["failure"]
  /\ killers["success"] # 0 /\ procs[killers["success"]].alive
  /\ Len(kills) = 1
  /\ kills[1].cont.kind = "failure"
  /\ procs[kills[1].h].alive

\* C20: every first_success is followed at once by a success of the same
\* line, no success comes before the first_success, and the first completion
\* without error sends first_success, however many failed completions came
\* before it.
C20_FirstSuccessPrecedesSuccess ==
  /\ \A p \in 1..Len(events) : events[p].msg = "first_success" =>
       /\ p < Len(events)
       /\ events[p + 1].msg = "success"
       /\ events[p + 1].line = events[p].line
  /\ \A p \in 1..Len(events) : events[p].msg = "success" =>
       \E q \in 1..(p - 1) : events[q].msg = "first_success"
  /\ \A j \in 1..Len(lines) :
       (lines[j].compilationComplete /\ ~ErrAt(j) /\ (\A i \in 1..(j - 1) : lines[i].compilationComplete => ErrAt(i)))
         => Occurrences(EventsFrom(j), "first_success") = 1

C20_Witness ==
  /\ Len(lines) = 4
  /\ Len(Sent) = 6
  /\ Occurrences(Sent, "compile_errors") = 2
  /\ Sent[5] = "first_success"
  /\ Sent[6] = "success"

====
